---- MODULE Spec2Model ----
(***************************************************************************)
(* Model of firmware/src/esp8266webbatterycell.ino: the telemetry store,   *)
(* the CAN frame decoder, the simulator, the set-current command encoder,  *)
(* the EEPROM preferences and the acquisition loop.                        *)
(*                                                                         *)
(* Representation of the C values:                                         *)
(*   cells[i], packVoltageV   integer millivolts                           *)
(*   balanceCurrentA          integer milliamps                            *)
(*   temperatureC             integer twentieths of a degree (0.05 C)      *)
(*   currentSettingA          an IEEE-754 binary32 value, kept as its      *)
(*                            fields [s, e, m] (sign, biased exponent,     *)
(*                            23-bit fraction); its four EEPROM bytes are  *)
(*                            the little-endian encoding of those fields   *)
(*   millis(), lastPoll       unsigned counters of ClockBits bits          *)
(***************************************************************************)
EXTENDS Integers, Sequences, FiniteSets, TLC

\* ---------------- CONFIG (program constants) ----------------
MAX_CELLS == 32
DEFAULT_CELLS == 8
CAN_POLL_MS == 200
CAN_SET_FRAME_TYPE == 48
EEPROM_MAGIC == 165
EEPROM_ADDR_COUNT == 1
EEPROM_ADDR_CURRENT == 2
NUM_SLAVES == 256

\* ---------------- bounds of the model ----------------
\* width of the millisecond counter (uint32_t in the code)
ClockBits == 9
\* external events (frames, HTTP requests, power cycles, advances of millis())
\* in one run
MaxEvents == 4
\* frames the transceiver buffers (the MCP2515 has two receive buffers)
RxBuffers == 2

Pow2(n) == 2 ^ n
Min(a, b) == IF a < b THEN a ELSE b

\* ---------------- binary32 values ----------------
F32(s, e, m) == [s |-> s, e |-> e, m |-> m]
FZero == F32(0, 0, 0)
FNegZero == F32(1, 0, 0)
F42_5 == F32(0, 132, 2752512)
F65 == F32(0, 133, 131072)
F70 == F32(0, 133, 786432)
FMinusOne == F32(1, 127, 0)
FNaN == F32(0, 255, 4194304)
FPlusInf == F32(0, 255, 0)
FMinusInf == F32(1, 255, 0)
FHuge == F32(0, 150, 0)

IsNan(f) == f.e = 255 /\ f.m # 0
IsInf(f) == f.e = 255 /\ f.m = 0
IsFinite(f) == f.e # 255
IsZero(f) == f.e = 0 /\ f.m = 0
\* C comparisons: false whenever an operand is NaN; -0.0 == 0.0
FloatLtZero(f) == ~IsNan(f) /\ f.s = 1 /\ ~IsZero(f)
FloatGtZero(f) == ~IsNan(f) /\ f.s = 0 /\ ~IsZero(f)
FloatEq(a, b) == ~IsNan(a) /\ ~IsNan(b) /\ (a = b \/ (IsZero(a) /\ IsZero(b)))

\* the four bytes of a float in memory (little-endian), and back
FloatBytes(f) ==
  << f.m % 256,
     (f.m \div 256) % 256,
     (f.m \div 65536) + 128 * (f.e % 2),
     (f.e \div 2) + 128 * f.s >>
BytesFloat(b) ==
  F32(b[4] \div 128,
      2 * (b[4] % 128) + (b[3] \div 128),
      b[1] + 256 * b[2] + 65536 * (b[3] % 128))

\* ---------------- EEPROM (RAM buffer of the library, bytes 0..5 used) ----------------
EepromAddrs == 0 .. (EEPROM_ADDR_CURRENT + 3)
EepromWriteNext(d, addr, v) == [d EXCEPT ![addr + 1] = v]
EepromWrite(d, addr, v) == [d EXCEPT ![addr] = v]
EepromPutFloat(d, addr, f) ==
  [a \in DOMAIN d |->
     IF a >= addr /\ a <= addr + 3 THEN FloatBytes(f)[a - addr + 1] ELSE d[a]]
EepromGetFloatBelow(d, addr) ==
  BytesFloat(<< d[addr - 1], d[addr], d[addr + 1], d[addr + 2] >>)
EepromGetFloat(d, addr) ==
  BytesFloat(<< d[addr], d[addr + 1], d[addr + 2], d[addr + 3] >>)
MkStorage(magic, count, f) ==
  [a \in EepromAddrs |->
     IF a = 0 THEN magic
     ELSE IF a = EEPROM_ADDR_COUNT THEN count
     ELSE FloatBytes(f)[a - EEPROM_ADDR_CURRENT + 1]]

\* ---------------- set current: the command encoder ----------------
\* number of binary digits of a positive integer
RECURSIVE BitLen(_)
BitLen(n) == IF n = 0 THEN 0 ELSE 1 + BitLen(n \div 2)

\* currentA * 1000.0f for a finite f: the binary32 product, as the pair
\* [q, x] standing for q * 2^x with q < 2^24 + 1. The significand times 1000
\* is (significand * 125) * 2^3; it is rounded to 24 bits, ties to even. (A
\* product below 2^-126 is rounded on the subnormal grid instead; it is below
\* 1/2 either way, so round() gives 0 for both.)
Mul1000(f) ==
  LET M  == IF f.e = 0 THEN f.m ELSE f.m + Pow2(23)
      E  == IF f.e = 0 THEN -149 ELSE f.e - 150
      P  == M * 125
      nb == BitLen(P)
      sh == IF nb > 24 THEN nb - 24 ELSE 0
      q0 == P \div Pow2(sh)
      r  == P % Pow2(sh)
      up == sh > 0 /\ (2 * r > Pow2(sh) \/ (2 * r = Pow2(sh) /\ q0 % 2 = 1))
  IN  [q |-> IF up THEN q0 + 1 ELSE q0, x |-> E + 3 + sh]

\* round(): to the nearest integer, halves away from zero; the magnitude of
\* round(q * 2^(-k)) for k > 0
RoundHalfAway(q, k) == IF k > 25 THEN 0 ELSE (q + Pow2(k - 1)) \div Pow2(k)

\* (uint32_t) of a value no uint32_t holds (negative, 2^32 or more, infinite,
\* NaN) is undefined: targets are known to give 0 and to saturate. After the
\* clamp to 0xFFFF these are the two results.
UndefinedCast == {0, 65535}

\* lines 481-482: mA = (uint32_t) round(currentA * 1000.0f), then the clamp to
\* 0xFFFF; the set of values mA may hold after line 482
ClampedMilliAmps(f) ==
  IF ~IsFinite(f) THEN UndefinedCast
  ELSE LET p == Mul1000(f) IN
       IF p.x > 8 \/ (p.x = 8 /\ p.q >= Pow2(24)) THEN UndefinedCast
       ELSE IF p.x >= 0
            THEN (IF f.s = 1 THEN UndefinedCast ELSE {65535})
            ELSE LET n == RoundHalfAway(p.q, -p.x) IN
                 IF f.s = 1 /\ n >= 1 THEN UndefinedCast ELSE {Min(n, 65535)}

PayloadOf(mA) ==
  << 1, CAN_SET_FRAME_TYPE, mA % 256, (mA \div 256) % 256, 0, 0, 0, 0 >>

\* the buffers formatCurrentPayload(currentA, out) may leave in out
formatCurrentPayload(currentA) ==
  { PayloadOf(mA) : mA \in ClampedMilliAmps(currentA) }

\* ---------------- simulation helpers ----------------
clampLow(v, lo, hi) == IF v < lo THEN lo ELSE v
clampf4(v, lo, hi) == IF v < lo THEN lo ELSE (IF v > hi THEN hi ELSE v)

CellIdx == 0 .. (MAX_CELLS - 1)
SlaveIdx == 0 .. (NUM_SLAVES - 1)

\* initSimData: 3.90 + 0.06 * (i % 3) volts
InitCells == [i \in CellIdx |-> 3900 + 60 * (i % 3)]
InitCursors == [s \in SlaveIdx |-> 0]

\* tickSimData on (cells, temperatureC); rnd.cell[i] is what random(-3, 4)
\* returns for cell i, rnd.temp what random(-2, 3) returns
TickCells(cs, n, rnd) ==
  [i \in CellIdx |->
     IF i < n THEN clampf4(cs[i] + rnd.cell[i], 3600, 4200) ELSE cs[i]]
TickTemp(t, rnd) == clampf4(t + rnd.temp, 400, 1100)

\* ---------------- CAN parsing ----------------
\* a frame is [len, buf]: len as readMsgBuf reports it and the 8 bytes of buf
\* after the call, of which readMsgBuf wrote the first len; buf[b + 1] is the
\* C buf[b]
Byte(f, b) == f.buf[b + 1]
Le16(lo, hi) == lo + 256 * hi

\* line 528: a cursor outside [0, activeCellCount) restarts at 0
StartIdx(idx, n) == IF idx < 0 \/ idx >= n THEN 0 ELSE idx
\* lines 535-536
NextIdxNoWrap(idx, n) == idx + 1
NextIdxWrapLate(idx, n) == IF idx + 1 > n THEN 0 ELSE idx + 1
NextIdx(idx, n) == IF idx + 1 >= n THEN 0 ELSE idx + 1
\* line 531: reading k is absent when its second byte is not in the frame
ReadingAbsent(k, len) == (2 + k * 2) + 1 >= len

\* lines 529-537, from reading k on: the cells, the cursor and the indices
\* written, in order
RECURSIVE DecodeBurst(_, _, _, _, _, _)
DecodeBurst(k, idx, cs, ws, f, n) ==
  IF k >= 3 \/ ReadingAbsent(k, f.len)
  THEN [idx |-> idx, cells |-> cs, writes |-> ws]
  ELSE LET b   == 2 + k * 2
           raw == Le16(Byte(f, b), Byte(f, b + 1))
           ok  == idx >= 0 /\ idx < n
       IN  DecodeBurst(k + 1, NextIdx(idx, n),
                       IF ok THEN [cs EXCEPT ![idx] = raw] ELSE cs,
                       IF ok THEN Append(ws, idx) ELSE ws,
                       f, n)

\* lines 541, 547, 553: the length a scalar frame needs
ScalarLenAny(frameType, len) == len >= 2
ScalarLenOk(frameType, len) == IF frameType = 10 THEN len >= 3 ELSE len >= 4

\* the scalar frames: raw / 1000.0f amps, raw * 0.01f volts, (float) buf[2]
BalanceOf(f) == Le16(Byte(f, 2), Byte(f, 3))
PackOfMilli(f) == Le16(Byte(f, 2), Byte(f, 3))
PackOf(f) == Le16(Byte(f, 2), Byte(f, 3)) * 10
TempOf(f) == Byte(f, 2) * 20

\* one pass of the while body (lines 522-557) on the telemetry
\* t = [cells, cur, temp, bal, pack], with n = activeCellCount
DecodeFrame(t, f, n) ==
  IF f.len < 2 THEN t @@ [writes |-> << >>]
  ELSE LET slave == Byte(f, 0)
           frameType == Byte(f, 1)
       IN  IF frameType = 0
           THEN LET r == DecodeBurst(0, StartIdx(t.cur[slave], n), t.cells, << >>, f, n)
                IN  [t EXCEPT !.cells = r.cells, !.cur = [t.cur EXCEPT ![slave] = r.idx]]
                      @@ [writes |-> r.writes]
           ELSE IF frameType = 8
           THEN (IF ScalarLenOk(8, f.len) THEN [t EXCEPT !.bal = BalanceOf(f)] ELSE t)
                  @@ [writes |-> << >>]
           ELSE IF frameType = 9
           THEN (IF ScalarLenOk(9, f.len) THEN [t EXCEPT !.pack = PackOf(f)] ELSE t)
                  @@ [writes |-> << >>]
           ELSE IF frameType = 10
           THEN (IF ScalarLenOk(10, f.len) THEN [t EXCEPT !.temp = TempOf(f)] ELSE t)
                  @@ [writes |-> << >>]
           ELSE t @@ [writes |-> << >>]

\* ---------------- preferences ----------------
\* lines 576-578: the first run writes the magic byte and the defaults
WriteDefaultsNoCount(d, count, current) ==
  EepromPutFloat(EepromWrite(d, 0, EEPROM_MAGIC), EEPROM_ADDR_CURRENT, current)
WriteDefaults(d, count, current) ==
  EepromPutFloat(
    EepromWrite(EepromWrite(d, 0, EEPROM_MAGIC), EEPROM_ADDR_COUNT, count % 256),
    EEPROM_ADDR_CURRENT, current)

\* loadPrefs on the EEPROM buffer d, with the in-memory values before it
loadPrefs(d, count0, current0) ==
  IF d[0] = EEPROM_MAGIC
  THEN LET c == d[EEPROM_ADDR_COUNT]
           v == EepromGetFloat(d, EEPROM_ADDR_CURRENT)
       IN  [count   |-> IF c >= 1 /\ c <= MAX_CELLS THEN c ELSE count0,
            current |-> IF IsNan(v) \/ FloatLtZero(v) THEN FZero ELSE v,
            data    |-> d,
            commit  |-> FALSE]
  ELSE [count   |-> count0,
        current |-> current0,
        data    |-> WriteDefaults(d, count0, current0),
        commit  |-> TRUE]

\* handleSetCells, lines 458-459: the clamp
ClampCountLow(c) == IF c < 1 THEN 1 ELSE c
ClampCount(c) == IF c < 1 THEN 1 ELSE (IF c > MAX_CELLS THEN MAX_CELLS ELSE c)
\* line 463: every per-slave index back to 0
CursorsKept(cur) == cur
ResetCursors(cur) == [s \in DOMAIN cur |-> 0]
\* line 464: the cells from the new count on are cleared
ClearTrailing(cs, c) == [i \in DOMAIN cs |-> IF i >= c THEN 0 ELSE cs[i]]

\* ---------------- state ----------------
VARIABLES
  pc,                      \* where the foreground is: "setup" or a place in loop()
  canPresent,
  activeCellCount,
  cells,
  temperatureC,
  balanceCurrentA,
  packVoltageV,
  currentSettingA,
  nextCellIndexPerSlave,
  canIrqFlag,
  eepromData,              \* the EEPROM library's RAM copy
  flash,                   \* the committed EEPROM sector
  now,                     \* loop()'s local now
  lastPoll,                \* loop()'s static lastPoll
  rxQueue,                 \* frames pending in the transceiver
  canTx,                   \* the last buffer handed to CAN0.sendMsgBuf
  lastOp,                  \* history: the last operation and its input
  reqCount,                \* history: the argument of the last /setCells?count=
  reqCurrent,              \* history: the argument of the last /setCurrent?value=
  budget,                  \* external events the run may still see
  encIn, encOut,           \* formatCurrentPayload on its own: input and output
  burst,                   \* the while body of drainCanMessages followed line by
                           \* line: << >>, or its locals inside a cell-voltage frame
  realSince                \* history, kept where the clock is studied: the real
                           \* milliseconds since lastPoll was set

telemetry == << activeCellCount, cells, temperatureC, balanceCurrentA,
                packVoltageV, currentSettingA, nextCellIndexPerSlave >>
storage   == << eepromData, flash >>
sched     == << pc, canIrqFlag, now, lastPoll >>
history   == << lastOp, reqCount, reqCurrent >>
used      == << budget >>
harness   == << encIn, encOut, burst, realSince >>
vars == << telemetry, storage, sched, history, used, harness,
           canPresent, rxQueue, canTx >>

Wrap == Pow2(ClockBits)
Op(name, arg) == [op |-> name, arg |-> arg]

\* the globals as the C initialisers leave them at power-on
PowerOn ==
  /\ pc = "setup"
  /\ canPresent = FALSE
  /\ activeCellCount = DEFAULT_CELLS
  /\ cells = [i \in CellIdx |-> 0]
  /\ temperatureC = 580
  /\ balanceCurrentA = 0
  /\ packVoltageV = 0
  /\ currentSettingA = FZero
  /\ nextCellIndexPerSlave = InitCursors
  /\ canIrqFlag = FALSE
  /\ now = 0
  /\ lastPoll = 0
  /\ rxQueue = << >>
  /\ canTx = << >>

\* ---------------- setup() ----------------
\* EEPROM.begin, initSimData, loadPrefs, the MCP2515 probe, and the saved
\* current sent once when the transceiver answers
Setup(present) ==
  /\ pc = "setup"
  /\ LET ld == loadPrefs(flash, activeCellCount, FZero) IN
     /\ eepromData' = ld.data
     /\ flash' = IF ld.commit THEN ld.data ELSE flash
     /\ activeCellCount' = ld.count
     /\ currentSettingA' = ld.current
     /\ IF present /\ FloatGtZero(ld.current)
        THEN \E buf \in formatCurrentPayload(ld.current) : canTx' = buf
        ELSE canTx' = canTx
  /\ cells' = InitCells
  /\ temperatureC' = 580
  /\ balanceCurrentA' = 0
  /\ packVoltageV' = 0
  /\ nextCellIndexPerSlave' = InitCursors
  /\ canPresent' = present
  /\ pc' = "handleClient"
  /\ lastOp' = Op("setup", flash)
  /\ UNCHANGED << canIrqFlag, now, lastPoll, rxQueue, reqCount, reqCurrent,
                  used, harness >>

\* a power cycle: RAM is lost, the committed sector stays
Restart ==
  /\ pc # "setup"
  /\ budget > 0
  /\ budget' = budget - 1
  /\ pc' = "setup"
  /\ canPresent' = FALSE
  /\ activeCellCount' = DEFAULT_CELLS
  /\ cells' = [i \in CellIdx |-> 0]
  /\ temperatureC' = 580
  /\ balanceCurrentA' = 0
  /\ packVoltageV' = 0
  /\ currentSettingA' = FZero
  /\ nextCellIndexPerSlave' = InitCursors
  /\ canIrqFlag' = FALSE
  /\ now' = 0
  /\ lastPoll' = 0
  /\ rxQueue' = << >>
  /\ canTx' = << >>
  /\ eepromData' = flash
  /\ lastOp' = Op("restart", << >>)
  /\ UNCHANGED << flash, reqCount, reqCurrent, harness >>

\* ---------------- HTTP handlers (run inside server.handleClient()) ----------------
NoRequest ==
  /\ pc = "handleClient"
  /\ pc' = "irqTest"
  /\ UNCHANGED << telemetry, storage, canIrqFlag, now, lastPoll, history, used,
                  harness, canPresent, rxQueue, canTx >>

\* a server that ran its handlers wherever the foreground happens to be
ServedAnywhere ==
  /\ pc # "setup"
  /\ budget > 0
  /\ budget' = budget - 1
  /\ pc' = pc
  /\ UNCHANGED << canIrqFlag, now, lastPoll, harness, canPresent, rxQueue >>

Served ==
  /\ pc = "handleClient"
  /\ budget > 0
  /\ budget' = budget - 1
  /\ pc' = "irqTest"
  /\ UNCHANGED << canIrqFlag, now, lastPoll, harness, canPresent, rxQueue >>

\* handleRoot and handleData only read
handleData ==
  /\ Served
  /\ lastOp' = Op("data", << >>)
  /\ UNCHANGED << telemetry, storage, reqCount, reqCurrent, canTx >>

\* arg is << >> without a "count" argument, << c >> with toInt() = c
handleSetCells(arg) ==
  /\ Served
  /\ lastOp' = Op("setCells", arg)
  /\ IF arg # << >>
     THEN LET c == ClampCount(arg[1]) IN
          /\ activeCellCount' = c
          /\ nextCellIndexPerSlave' = ResetCursors(nextCellIndexPerSlave)
          /\ cells' = ClearTrailing(cells, c)
          /\ eepromData' = EepromWrite(EepromWrite(eepromData, 0, EEPROM_MAGIC),
                                       EEPROM_ADDR_COUNT, c % 256)
          /\ flash' = eepromData'
          /\ reqCount' = arg
     ELSE UNCHANGED << activeCellCount, nextCellIndexPerSlave, cells, storage,
                       reqCount >>
  /\ UNCHANGED << temperatureC, balanceCurrentA, packVoltageV, currentSettingA,
                  reqCurrent, canTx >>

\* sendCurrentToBMS: nothing without the transceiver
sendCurrentToBMS(currentA) ==
  IF canPresent
  THEN \E buf \in formatCurrentPayload(currentA) : canTx' = buf
  ELSE canTx' = canTx

\* line 501: a NaN argument becomes 0
KeepNan(v) == v
NanToZero(v) == IF IsNan(v) THEN FZero ELSE v

\* arg is << >> without a "value" argument, << v >> with toFloat() = v
handleSetCurrent(arg) ==
  /\ Served
  /\ lastOp' = Op("setCurrent", arg)
  /\ IF arg # << >>
     THEN LET v == NanToZero(arg[1]) IN
          /\ currentSettingA' = v
          /\ eepromData' = EepromPutFloat(EepromWrite(eepromData, 0, EEPROM_MAGIC),
                                          EEPROM_ADDR_CURRENT, v)
          /\ flash' = eepromData'
          /\ sendCurrentToBMS(v)
          /\ reqCurrent' = arg
     ELSE UNCHANGED << currentSettingA, storage, canTx, reqCurrent >>
  /\ UNCHANGED << activeCellCount, cells, temperatureC, balanceCurrentA,
                  packVoltageV, nextCellIndexPerSlave, reqCount >>

\* ---------------- the interrupt and the bus ----------------
canIsr ==
  /\ pc # "setup"
  /\ canIrqFlag' = TRUE
  /\ UNCHANGED << telemetry, storage, pc, now, lastPoll, history, used, harness,
                  canPresent, rxQueue, canTx >>

\* a frame reaches the transceiver; irq tells whether INT falls for it
FrameLands(f, irq) ==
  /\ pc # "setup"
  /\ canPresent
  /\ Len(rxQueue) < RxBuffers
  /\ rxQueue' = Append(rxQueue, f)
  /\ canIrqFlag' = (canIrqFlag \/ irq)
  /\ UNCHANGED << telemetry, storage, pc, now, lastPoll, history, harness,
                  canPresent, canTx >>

\* one of the frames the run may still see
FrameArrive(f, irq) ==
  /\ budget > 0
  /\ budget' = budget - 1
  /\ FrameLands(f, irq)

\* a bus that never falls silent
FrameFlood(f, irq) ==
  /\ FrameLands(f, irq)
  /\ UNCHANGED budget

\* ---------------- loop() ----------------
\* now = millis() after d more milliseconds, and the test of canIrqFlag
IrqTestAfter(d) ==
  /\ pc = "irqTest"
  /\ now' = (now + d) % Wrap
  /\ pc' = IF canIrqFlag THEN "irqClear" ELSE "pollTest"
  /\ UNCHANGED << telemetry, storage, canIrqFlag, lastPoll, history, harness,
                  canPresent, rxQueue, canTx >>

\* time passing is one of the events a bounded run counts
LoopIrqTest(d) ==
  /\ d = 0 \/ budget > 0
  /\ budget' = IF d = 0 THEN budget ELSE budget - 1
  /\ IrqTestAfter(d)

\* the same pass, d real milliseconds after the one before, with the real
\* time since lastPoll kept; the two samples are less than one round of the
\* counter apart
ClockPass(d) ==
  /\ pc = "irqTest"
  /\ realSince + d < Wrap
  /\ realSince' = realSince + d
  /\ now' = (now + d) % Wrap
  /\ pc' = IF canIrqFlag THEN "irqClear" ELSE "pollTest"
  /\ UNCHANGED << telemetry, storage, canIrqFlag, lastPoll, history, used, encIn,
                  encOut, burst, canPresent, rxQueue, canTx >>

\* time passing without end
LoopIrqTestTimed(d) ==
  /\ IrqTestAfter(d)
  /\ UNCHANGED budget

LoopIrqClear ==
  /\ pc = "irqClear"
  /\ canIrqFlag' = FALSE
  /\ pc' = "irqDrain"
  /\ UNCHANGED << telemetry, storage, now, lastPoll, history, used, harness,
                  canPresent, rxQueue, canTx >>

\* drainCanMessages: one frame read and decoded
DrainDecode ==
  /\ pc \in {"irqDrain", "pollDrain"}
  /\ canPresent
  /\ rxQueue # << >>
  /\ LET f == Head(rxQueue)
         r == DecodeFrame([cells |-> cells, cur |-> nextCellIndexPerSlave,
                           temp |-> temperatureC, bal |-> balanceCurrentA,
                           pack |-> packVoltageV], f, activeCellCount)
     IN /\ cells' = r.cells
        /\ nextCellIndexPerSlave' = r.cur
        /\ temperatureC' = r.temp
        /\ balanceCurrentA' = r.bal
        /\ packVoltageV' = r.pack
        /\ lastOp' = Op("decode", [frame |-> f, writes |-> r.writes])
  /\ rxQueue' = Tail(rxQueue)
  /\ UNCHANGED << activeCellCount, currentSettingA, storage, sched, reqCount,
                  reqCurrent, used, harness, canPresent, canTx >>

\* the same with line 642 left out
DrainReturnKeepsTimer ==
  /\ pc \in {"irqDrain", "pollDrain"}
  /\ ~canPresent \/ rxQueue = << >>
  /\ pc' = IF pc = "irqDrain" THEN "pollTest" ELSE "yield"
  /\ UNCHANGED << telemetry, storage, canIrqFlag, now, lastPoll, history, used,
                  harness, canPresent, rxQueue, canTx >>

\* the same with line 640 moved behind line 641
DrainReturnClearsFlag ==
  /\ pc \in {"irqDrain", "pollDrain"}
  /\ ~canPresent \/ rxQueue = << >>
  /\ lastPoll' = IF pc = "irqDrain" THEN now ELSE lastPoll
  /\ canIrqFlag' = IF pc = "irqDrain" THEN FALSE ELSE canIrqFlag
  /\ pc' = IF pc = "irqDrain" THEN "pollTest" ELSE "yield"
  /\ UNCHANGED << telemetry, storage, now, history, used, harness,
                  canPresent, rxQueue, canTx >>

\* the while body on a cell-voltage frame, line by line
\* lines 520-528: the frame is read out of the transceiver, idx is set up
ReadFrame ==
  /\ pc \in {"irqDrain", "pollDrain"}
  /\ canPresent
  /\ rxQueue # << >>
  /\ Head(rxQueue).len >= 2
  /\ Byte(Head(rxQueue), 1) = 0
  /\ burst' = [frame  |-> Head(rxQueue),
               k      |-> 0,
               idx    |-> StartIdx(nextCellIndexPerSlave[Byte(Head(rxQueue), 0)],
                                   activeCellCount),
               writes |-> << >>,
               from   |-> pc,
               before |-> [cells |-> cells, cur |-> nextCellIndexPerSlave]]
  /\ rxQueue' = Tail(rxQueue)
  /\ pc' = "inFrame"
  /\ UNCHANGED << telemetry, storage, canIrqFlag, now, lastPoll, history, used,
                  encIn, encOut, realSince, canPresent, canTx >>

\* lines 529-536, once round the for loop: one reading into one cell
WriteCell ==
  /\ pc = "inFrame"
  /\ burst.k < 3
  /\ ~ReadingAbsent(burst.k, burst.frame.len)
  /\ LET b   == 2 + burst.k * 2
         raw == Le16(Byte(burst.frame, b), Byte(burst.frame, b + 1))
         ok  == burst.idx >= 0 /\ burst.idx < activeCellCount
     IN  /\ cells' = IF ok THEN [cells EXCEPT ![burst.idx] = raw] ELSE cells
         /\ burst' = [burst EXCEPT
                        !.k = burst.k + 1,
                        !.idx = NextIdx(burst.idx, activeCellCount),
                        !.writes = IF ok THEN Append(burst.writes, burst.idx)
                                   ELSE burst.writes]
  /\ UNCHANGED << activeCellCount, temperatureC, balanceCurrentA, packVoltageV,
                  currentSettingA, nextCellIndexPerSlave, storage, sched, history,
                  used, encIn, encOut, realSince, canPresent, rxQueue, canTx >>

\* line 538, after the for loop: the cursor is stored, back to the while test
StoreCursor ==
  /\ pc = "inFrame"
  /\ burst.k >= 3 \/ ReadingAbsent(burst.k, burst.frame.len)
  /\ nextCellIndexPerSlave' =
       [nextCellIndexPerSlave EXCEPT ![Byte(burst.frame, 0)] = burst.idx]
  /\ lastOp' = Op("decode", [frame |-> burst.frame, writes |-> burst.writes])
  /\ pc' = burst.from
  /\ burst' = << >>
  /\ UNCHANGED << activeCellCount, cells, temperatureC, balanceCurrentA,
                  packVoltageV, currentSettingA, storage, canIrqFlag, now, lastPoll,
                  reqCount, reqCurrent, used, encIn, encOut, realSince, canPresent,
                  rxQueue, canTx >>

\* drainCanMessages returns: no transceiver, or nothing pending; after the
\* interrupt's drain lastPoll = now
DrainReturn ==
  /\ pc \in {"irqDrain", "pollDrain"}
  /\ ~canPresent \/ rxQueue = << >>
  /\ lastPoll' = IF pc = "irqDrain" THEN now ELSE lastPoll
  /\ pc' = IF pc = "irqDrain" THEN "pollTest" ELSE "yield"
  /\ UNCHANGED << telemetry, storage, canIrqFlag, now, history, used, harness,
                  canPresent, rxQueue, canTx >>

\* the difference taken as a signed number
ElapsedNoWrap == now - lastPoll
\* line 646: now - lastPoll in the counter's unsigned arithmetic
Elapsed == (now - lastPoll) % Wrap

LoopPollSkip ==
  /\ pc = "pollTest"
  /\ ~(Elapsed >= CAN_POLL_MS)
  /\ pc' = "yield"
  /\ UNCHANGED << telemetry, storage, canIrqFlag, now, lastPoll, history, used,
                  harness, canPresent, rxQueue, canTx >>

\* the same with line 649 left out
LoopPollNoDrain ==
  /\ pc = "pollTest"
  /\ Elapsed >= CAN_POLL_MS
  /\ canPresent
  /\ lastPoll' = now
  /\ pc' = "yield"
  /\ UNCHANGED << telemetry, storage, canIrqFlag, now, history, used, harness,
                  canPresent, rxQueue, canTx >>

LoopPollDrain ==
  /\ pc = "pollTest"
  /\ Elapsed >= CAN_POLL_MS
  /\ canPresent
  /\ lastPoll' = now
  /\ pc' = "pollDrain"
  /\ UNCHANGED << telemetry, storage, canIrqFlag, now, history, used, harness,
                  canPresent, rxQueue, canTx >>

\* the same without the test of canPresent at line 648
LoopPollTickAnyMode(rnd) ==
  /\ pc = "pollTest"
  /\ Elapsed >= CAN_POLL_MS
  /\ lastPoll' = now
  /\ cells' = TickCells(cells, activeCellCount, rnd)
  /\ temperatureC' = TickTemp(temperatureC, rnd)
  /\ lastOp' = Op("tick", << >>)
  /\ pc' = "yield"
  /\ UNCHANGED << activeCellCount, balanceCurrentA, packVoltageV, currentSettingA,
                  nextCellIndexPerSlave, storage, canIrqFlag, now, reqCount,
                  reqCurrent, used, harness, canPresent, rxQueue, canTx >>

LoopPollTick(rnd) ==
  /\ pc = "pollTest"
  /\ Elapsed >= CAN_POLL_MS
  /\ ~canPresent
  /\ lastPoll' = now
  /\ cells' = TickCells(cells, activeCellCount, rnd)
  /\ temperatureC' = TickTemp(temperatureC, rnd)
  /\ lastOp' = Op("tick", << >>)
  /\ pc' = "yield"
  /\ UNCHANGED << activeCellCount, balanceCurrentA, packVoltageV, currentSettingA,
                  nextCellIndexPerSlave, storage, canIrqFlag, now, reqCount,
                  reqCurrent, used, harness, canPresent, rxQueue, canTx >>

LoopYield ==
  /\ pc = "yield"
  /\ pc' = "handleClient"
  /\ UNCHANGED << telemetry, storage, canIrqFlag, now, lastPoll, history, used,
                  harness, canPresent, rxQueue, canTx >>

\* formatCurrentPayload called on encIn, on its own
Encode ==
  /\ encOut = << >>
  /\ encOut' \in formatCurrentPayload(encIn)
  /\ UNCHANGED << telemetry, storage, sched, history, used, encIn, burst,
                  realSince, canPresent, rxQueue, canTx >>

\* ---------------- inputs ----------------
\* EEPROM contents found at the first power-on
InitialStorages ==
  { [a \in EepromAddrs |-> 255],          \* erased flash
    MkStorage(EEPROM_MAGIC, 12, F42_5),
    MkStorage(EEPROM_MAGIC, 200, FMinusOne) }

CountArgs == { << >>, << 0 >>, << 3 >>, << 40 >> }
CurrentArgs == { << >>, << F65 >>, << FNaN >>, << FMinusOne >>, << FPlusInf >> }

Frame(bytes, len) == [len |-> len, buf |-> bytes]
\* readings 3700 mV, 4100 mV, 65535 mV
BurstBytes(slave) == << slave, 0, 116, 14, 4, 16, 255, 255 >>
\* readings 3650 mV, 3651 mV, 3652 mV
BurstBytes2(slave) == << slave, 0, 66, 14, 67, 14, 68, 14 >>
ScalarBytes(slave, type) == << slave, type, 44, 1, 7, 7, 7, 7 >>

Frames ==
  { Frame(BurstBytes(1), 8), Frame(BurstBytes2(255), 6), Frame(ScalarBytes(1, 10), 3) }

TimeDeltas == {0, 200}

RandPatterns ==
  { [cell |-> [i \in CellIdx |-> c[1]], temp |-> c[2]] :
      c \in { << -3, -2 >>, << 0, 0 >>, << 3, 2 >> } }

\* ---------------- the program ----------------
Init ==
  /\ PowerOn
  /\ flash \in InitialStorages
  /\ eepromData = flash
  /\ lastOp = Op("boot", << >>)
  /\ reqCount = << >>
  /\ reqCurrent = << >>
  /\ budget = MaxEvents
  /\ encIn = FZero /\ encOut = << >>
  /\ burst = << >> /\ realSince = 0

Loop ==
  \/ NoRequest
  \/ \E d \in TimeDeltas : LoopIrqTest(d)
  \/ LoopIrqClear
  \/ DrainDecode
  \/ DrainReturn
  \/ LoopPollSkip
  \/ LoopPollDrain
  \/ LoopYield

Next ==
  \/ \E present \in BOOLEAN : Setup(present)
  \/ Restart
  \/ handleData
  \/ \E arg \in CountArgs : handleSetCells(arg)
  \/ \E arg \in CurrentArgs : handleSetCurrent(arg)
  \/ canIsr
  \/ \E f \in Frames, irq \in BOOLEAN : FrameArrive(f, irq)
  \/ \E rnd \in RandPatterns : LoopPollTick(rnd)
  \/ Loop

Spec == Init /\ [][Next]_vars

\* ---------------- the frame decoder under every frame shape ----------------
\* the program started with the transceiver present and a stored cell count,
\* fed every frame of DecodeFrames, each announced by the interrupt
MaxDecodeFrames == 2

DecodeCounts == {1, 2, 3, 8}
DecodeFrames ==
  { Frame(BurstBytes(1), len) : len \in 0 .. 8 }
    \cup { Frame(BurstBytes2(255), len) : len \in {4, 8} }
    \cup { Frame(ScalarBytes(1, type), len) : type \in {8, 9, 10}, len \in {2, 3, 4, 8} }
    \cup { Frame(ScalarBytes(255, 48), 8), Frame(ScalarBytes(1, 11), 4) }

InitDecode ==
  /\ PowerOn
  /\ flash \in { MkStorage(EEPROM_MAGIC, n, FZero) : n \in DecodeCounts }
  /\ eepromData = flash
  /\ lastOp = Op("boot", << >>)
  /\ reqCount = << >>
  /\ reqCurrent = << >>
  /\ budget = MaxDecodeFrames
  /\ encIn = FZero /\ encOut = << >>
  /\ burst = << >> /\ realSince = 0

NextDecode ==
  \/ Setup(TRUE)
  \/ \E f \in DecodeFrames : FrameArrive(f, TRUE)
  \/ NoRequest
  \/ LoopIrqTest(0)
  \/ LoopIrqClear
  \/ DrainDecode
  \/ DrainReturn
  \/ LoopPollSkip
  \/ LoopYield

SpecDecode == InitDecode /\ [][NextDecode]_vars

\* ---------------- claims: the frame decoder ----------------
FrameType(f) == Byte(f, 1)
SlaveOf(f) == Byte(f, 0)
Rejected(f) ==
  \/ f.len < 2
  \/ FrameType(f) \notin {0, 8, 9, 10}
  \/ FrameType(f) \in {8, 9} /\ f.len < 4
  \/ FrameType(f) = 10 /\ f.len < 3

\* C1: decoding a frame that is shorter than 2 bytes, of an unknown type, or
\* too short for its type (0x08/0x09 under 4 bytes, 0x0A under 3) changes no
\* cell, no scalar of the snapshot, not the transceiver flag and no cursor.
C1_RejectedFrameNoOp ==
  [][ (DrainDecode /\ Rejected(Head(rxQueue)))
        => UNCHANGED << telemetry, canPresent >> ]_vars

\* a known scalar type, too short for it, has been decoded
C1_Witness ==
  /\ lastOp.op = "decode"
  /\ lastOp.arg.frame.len \in {2, 3}
  /\ FrameType(lastOp.arg.frame) \in {8, 9}

\* reading k of a burst, in millivolts, and the number of readings in it
Reading(f, k) == Byte(f, 2 + 2 * k) + 256 * Byte(f, 3 + 2 * k)
Readings(f) == Min(3, (f.len - 2) \div 2)

\* C2: a type-0x00 frame of length L in 2..8 from slave s, with n cells
\* active and the cursor of s at p, decodes r = min(3, (L-2) div 2) readings;
\* reading k goes to cell (p+k) mod n, the later reading winning where two
\* fall on one cell; the cursor of s becomes (p+r) mod n; no other cell, no
\* other cursor and no scalar changes.
C2_BurstDecode ==
  [][ (DrainDecode /\ Head(rxQueue).len >= 2 /\ FrameType(Head(rxQueue)) = 0)
        => LET f == Head(rxQueue)
               s == SlaveOf(f)
               n == activeCellCount
               p == nextCellIndexPerSlave[s]
               r == Readings(f)
               Hit(i) == { k \in 0 .. (r - 1) : (p + k) % n = i }
               Last(S) == CHOOSE k \in S : \A j \in S : j <= k
           IN  /\ lastOp'.arg.writes = [k \in 1 .. r |-> (p + k - 1) % n]
               /\ \A i \in CellIdx :
                    cells'[i] = IF Hit(i) = {} THEN cells[i]
                                ELSE Reading(f, Last(Hit(i)))
               /\ nextCellIndexPerSlave' =
                    [nextCellIndexPerSlave EXCEPT ![s] = (p + r) % n]
               /\ UNCHANGED << activeCellCount, temperatureC, balanceCurrentA,
                               packVoltageV, currentSettingA, canPresent >> ]_vars

\* a full burst met a cursor that was not 0 and wrapped onto a cell it had
\* already written
C2_Witness ==
  /\ lastOp.op = "decode"
  /\ FrameType(lastOp.arg.frame) = 0
  /\ lastOp.arg.frame.len = 8
  /\ lastOp.arg.writes = << 1, 0, 1 >>
  /\ cells[1] = 65535
  /\ nextCellIndexPerSlave[1] = 0

\* ---------------- claims: cell count and preferences ----------------
SetCellsDone == lastOp.op = "setCells" /\ lastOp.arg # << >>
SetCurrentDone == lastOp.op = "setCurrent" /\ lastOp.arg # << >>
FirstRunDone == lastOp.op = "setup" /\ lastOp.arg[0] # 165
\* the step is an HTTP handler's, or setup()'s
RequestStep == pc = "handleClient" /\ budget' # budget
SetupStep == pc = "setup" /\ pc' # "setup"
Into1to32(c) == IF c < 1 THEN 1 ELSE (IF c > 32 THEN 32 ELSE c)

\* C3: once a set-cell-count request with value c has completed, every
\* per-slave cursor is 0 and every cell from index c (clamped into 1..32) on
\* reads 0.0; the next cell-voltage burst, from whatever slave, writes its
\* first reading at index 0.
C3_CursorReset ==
  [][ /\ SetCellsDone' =>
           /\ \A s \in SlaveIdx : nextCellIndexPerSlave'[s] = 0
           /\ \A i \in CellIdx : i >= Into1to32(lastOp'.arg[1]) => cells'[i] = 0
      /\ (SetCellsDone /\ DrainDecode /\ lastOp'.arg.writes # << >>)
           => lastOp'.arg.writes[1] = 0 ]_vars

\* slave 1 had sent a burst (cell 0 holds its first reading, its cursor had
\* moved) when the count was set to 3
C3_Witness ==
  /\ SetCellsDone
  /\ lastOp.arg = << 3 >>
  /\ cells[0] = 3700
  /\ cells[3] = 0
  /\ nextCellIndexPerSlave[1] = 0

\* C7: when the last set-cell-count request carried c in 1..32 and the last
\* set-current request carried a finite non-negative a, then after a restart
\* (initSimData, then loadPrefs on the committed sector) activeCellCount = c
\* and currentSettingA = a.
C7_RoundTrip ==
  ( /\ lastOp.op = "setup"
    /\ reqCount # << >> /\ reqCurrent # << >> )
  => ( ( /\ reqCount[1] >= 1 /\ reqCount[1] <= 32
         /\ IsFinite(reqCurrent[1]) /\ ~FloatLtZero(reqCurrent[1]) )
       => /\ activeCellCount = reqCount[1]
          /\ FloatEq(currentSettingA, reqCurrent[1]) )

C7_Witness ==
  /\ lastOp.op = "setup"
  /\ reqCount = << 3 >>
  /\ reqCurrent = << F65 >>
  /\ activeCellCount = 3
  /\ currentSettingA = F65

\* C10 as claimed: after every completed save (by a set-cell-count request,
\* by a set-current request, by the first run) the committed sector holds the
\* magic byte, the in-memory activeCellCount and the in-memory currentSettingA.
C10_SaveWritesAll ==
  (SetCellsDone \/ SetCurrentDone \/ FirstRunDone)
    => flash = MkStorage(165, activeCellCount, currentSettingA)

\* C10 as the code has it: each save commits the magic byte and the field its
\* request changes, and leaves the other field's bytes as they were: a
\* set-cell-count save the count byte (= activeCellCount), a set-current save
\* bytes 2..5 (= currentSettingA); only the first run writes all three.
C10_SaveWritesItsField ==
  [][ /\ (SetCellsDone' /\ RequestStep) =>
           flash' = [a \in EepromAddrs |->
                       IF a = 0 THEN 165
                       ELSE IF a = 1 THEN activeCellCount'
                       ELSE flash[a]]
      /\ (SetCurrentDone' /\ RequestStep) =>
           flash' = [a \in EepromAddrs |->
                       IF a = 0 THEN 165
                       ELSE IF a = 1 THEN flash[1]
                       ELSE FloatBytes(currentSettingA')[a - 1]]
      /\ (FirstRunDone' /\ SetupStep) =>
           flash' = MkStorage(165, activeCellCount', currentSettingA') ]_vars

\* a set-cell-count save left a setpoint in the sector that is not the one in
\* memory
C10_Witness ==
  /\ SetCellsDone
  /\ flash[0] = 165
  /\ flash[1] = activeCellCount
  /\ EepromGetFloat(flash, 2) # currentSettingA

\* ---------------- setup() on every kind of stored region ----------------
FSubnormal == F32(0, 0, 1)
FNegNaN == F32(1, 255, 1)
BootFloats == { FZero, FNegZero, F42_5, F65, FMinusOne, FNaN, FNegNaN, FPlusInf,
                FMinusInf, FSubnormal, FHuge }
BootStorages ==
  { MkStorage(magic, count, f) :
      magic \in {0, 90, 164, EEPROM_MAGIC, 255},
      count \in {0, 1, 8, 12, 32, 33, 200, 255},
      f \in BootFloats }

InitBoot ==
  /\ PowerOn
  /\ flash \in BootStorages
  /\ eepromData = flash
  /\ lastOp = Op("boot", << >>)
  /\ reqCount = << >>
  /\ reqCurrent = << >>
  /\ budget = 0
  /\ encIn = FZero /\ encOut = << >>
  /\ burst = << >> /\ realSince = 0

NextBoot == \E present \in BOOLEAN : Setup(present)

SpecBoot == InitBoot /\ [][NextBoot]_vars

\* ---------------- claims: loadPrefs ----------------
\* C8: when load runs on a region whose byte 0 is not 0xA5, the configuration
\* in memory afterwards is the defaults (8 cells, 0.0 A) and the committed
\* sector holds 0xA5, the count 8 and the bytes of 0.0f; nothing of the
\* region is adopted.
C8_FirstRun ==
  FirstRunDone =>
    /\ activeCellCount = 8
    /\ currentSettingA = FZero
    /\ flash = [a \in EepromAddrs |-> IF a = 0 THEN 165 ELSE IF a = 1 THEN 8 ELSE 0]
    /\ eepromData = flash

\* the region held a plausible count and setpoint behind a wrong magic byte
C8_Witness ==
  /\ FirstRunDone
  /\ lastOp.arg = MkStorage(90, 12, F42_5)
  /\ activeCellCount = 8
  /\ flash[0] = 165

\* C9: after load with a valid magic byte, activeCellCount is the stored
\* count byte if that is in 1..32 and stays 8 otherwise; currentSettingA is
\* the stored setpoint if that is a finite non-negative number and 0
\* otherwise (negative, NaN or infinite).
C9_LoadValidation ==
  (lastOp.op = "setup" /\ lastOp.arg[0] = 165) =>
    LET c == lastOp.arg[1]
        v == BytesFloat(<< lastOp.arg[2], lastOp.arg[3], lastOp.arg[4], lastOp.arg[5] >>)
    IN  /\ activeCellCount = IF c >= 1 /\ c <= 32 THEN c ELSE 8
        /\ currentSettingA = IF IsFinite(v) /\ ~FloatLtZero(v) THEN v ELSE FZero

\* ---------------- the simulator at its boundaries ----------------
\* simulated mode, the count just set, every active cell and the temperature
\* at a value a run can have brought them to (0.0 in a cell the count grew
\* over), the poll period about to elapse
SimCells == 2

SimCellValues == {0, 3600, 3602, 3900, 4198, 4200}
SimTemps == {400, 401, 580, 1099, 1100}
SimRand ==
  { [cell |-> [i \in CellIdx |-> IF i < SimCells THEN c[i + 1] ELSE 0], temp |-> t] :
      c \in [1 .. SimCells -> -3 .. 3], t \in -2 .. 2 }

InitSim ==
  /\ pc = "irqTest"
  /\ canPresent = FALSE
  /\ activeCellCount \in 1 .. SimCells
  /\ cells \in { [i \in CellIdx |-> IF i < activeCellCount THEN c[i + 1] ELSE 0] :
                   c \in [1 .. SimCells -> SimCellValues] }
  /\ temperatureC \in SimTemps
  /\ balanceCurrentA = 0
  /\ packVoltageV = 0
  /\ currentSettingA = FZero
  /\ nextCellIndexPerSlave = InitCursors
  /\ canIrqFlag = FALSE
  /\ flash = MkStorage(EEPROM_MAGIC, activeCellCount, FZero)
  /\ eepromData = flash
  /\ now = 0
  /\ lastPoll = 0
  /\ rxQueue = << >>
  /\ canTx = << >>
  /\ lastOp = Op("setCells", << activeCellCount >>)
  /\ reqCount = << activeCellCount >>
  /\ reqCurrent = << >>
  /\ budget = 1
  /\ encIn = FZero /\ encOut = << >>
  /\ burst = << >> /\ realSince = 0

NextSim ==
  \/ LoopIrqTest(CAN_POLL_MS)
  \/ \E rnd \in SimRand : LoopPollTick(rnd)

SpecSim == InitSim /\ [][NextSim]_vars

\* C4: right after a simulator tick every active cell is within 3.60..4.20 V
\* and the temperature within 20..55 C, whatever they were before and
\* whatever random() returned.
C4_SimClamped ==
  lastOp.op = "tick" =>
    /\ \A i \in CellIdx : i < activeCellCount => (cells[i] >= 3600 /\ cells[i] <= 4200)
    /\ temperatureC >= 400 /\ temperatureC <= 1100

\* a tick has held a cell at the floor, a cell at the ceiling and the
\* temperature at its floor
C4_Witness ==
  /\ lastOp.op = "tick"
  /\ activeCellCount = 2
  /\ cells[0] = 3600
  /\ cells[1] = 4200
  /\ temperatureC = 400

\* ---------------- the command encoder on every kind of float ----------------
EncInputs ==
  { F32(s, e, m) :
      s \in {0, 1},
      e \in {0, 1, 116, 117, 126, 127, 132, 133, 134, 142, 143, 149, 150, 151, 254, 255},
      m \in {0, 1, 131072, 201196, 201327, 2752512, 4194304, 8388607} }

\* the encoder is given encIn directly (Encode), and the program is sent
\* encIn as the value of a set-current request
InitEnc ==
  /\ PowerOn
  /\ flash = [a \in EepromAddrs |-> 255]
  /\ eepromData = flash
  /\ lastOp = Op("boot", << >>)
  /\ reqCount = << >>
  /\ reqCurrent = << >>
  /\ budget = 1
  /\ encIn \in EncInputs
  /\ encOut = << >>
  /\ burst = << >> /\ realSince = 0

NextEnc ==
  \/ Encode
  \/ Setup(TRUE)
  \/ handleSetCurrent(<< encIn >>)

SpecEnc == InitEnc /\ [][NextEnc]_vars

\* ---------------- claims: the command encoder ----------------
\* min(round(a * 1000), 0xFFFF) for a finite a >= 0, a * 1000 being the
\* binary32 product
MilliAmps16(f) ==
  LET p == Mul1000(f) IN
  IF p.x >= 0 THEN (IF p.q = 0 THEN 0 ELSE 65535)
  ELSE Min(RoundHalfAway(p.q, -p.x), 65535)

\* C5: for every finite non-negative a, formatCurrentPayload leaves
\* 0x01, 0x30, the little-endian 16 bits of min(round(a*1000), 0xFFFF), and
\* four zero bytes; every a above 65.535 gives 0xFFFF.
C5_Encoding ==
  (encOut # << >> /\ IsFinite(encIn) /\ (encIn.s = 0 \/ IsZero(encIn))) =>
    LET v == MilliAmps16(encIn) IN
    encOut = << 1, 48, v % 256, v \div 256, 0, 0, 0, 0 >>

InDrain == pc \in {"irqDrain", "pollDrain"}
\* the step is the poll branch of loop() calling tickSimData
SimulatorStep == pc = "pollTest" /\ pc' = "yield" /\ lastPoll' # lastPoll

\* C11: after setup's probe canPresent never changes until the next power
\* cycle; with the probe failed no step of drainCanMessages changes the
\* telemetry or a cursor; with the probe succeeded tickSimData is never
\* called (a power cycle ends the run). So within one run the simulator and
\* the decoder never both write.
C11_SinglePath ==
  [][ /\ (pc # "setup" /\ pc' # "setup") => canPresent' = canPresent
      /\ (~canPresent /\ InDrain /\ pc' # "setup") => UNCHANGED telemetry
      /\ SimulatorStep => ~canPresent
      /\ (canPresent /\ pc = "pollTest" /\ pc' # "setup") => UNCHANGED telemetry ]_vars

\* the probe failed, the interrupt line fired all the same, and the
\* simulator has moved the cells
C11_Witness ==
  /\ ~canPresent
  /\ canIrqFlag
  /\ lastOp.op = "tick"
  /\ cells # InitCells

\* ---------------- the cell count under every argument ----------------
\* setup on stored counts of every kind, then set-cell-count requests with
\* toInt() results of every kind (0 is also what non-numeric text parses to),
\* and power cycles
MaxCountEvents == 2

CountStorages ==
  { MkStorage(magic, count, FZero) :
      magic \in {EEPROM_MAGIC, 255}, count \in {0, 1, 32, 33, 255} }
WideCountArgs ==
  { << >>, << -2147483647 >>, << -1 >>, << 0 >>, << 1 >>, << 32 >>, << 33 >>,
    << 256 >>, << 2147483647 >> }

InitCount ==
  /\ PowerOn
  /\ flash \in CountStorages
  /\ eepromData = flash
  /\ lastOp = Op("boot", << >>)
  /\ reqCount = << >>
  /\ reqCurrent = << >>
  /\ budget = MaxCountEvents
  /\ encIn = FZero /\ encOut = << >>
  /\ burst = << >> /\ realSince = 0

NextCount ==
  \/ \E present \in BOOLEAN : Setup(present)
  \/ Restart
  \/ \E arg \in WideCountArgs : handleSetCells(arg)
  \/ NoRequest
  \/ LoopIrqTest(0)
  \/ LoopPollSkip
  \/ LoopYield

SpecCount == InitCount /\ [][NextCount]_vars

\* ---------------- claims: bounds ----------------
\* C12: in every reachable state 1 <= activeCellCount <= 32, whatever the
\* storage held at startup and whatever the set-cell-count requests carried.
C12_CountBounds == activeCellCount >= 1 /\ activeCellCount <= 32

\* a request above the range was clamped to 32 and saved
C12_Witness ==
  /\ SetCellsDone
  /\ lastOp.arg[1] > 32
  /\ activeCellCount = 32
  /\ flash[1] = 32

\* ---------------- cursors under frames and count changes ----------------
\* the transceiver answers; bursts from two slaves, set-cell-count requests
\* that shrink and grow the count, and power cycles, in every order
MaxCursorEvents == 3

InitCursor ==
  /\ PowerOn
  /\ flash \in { MkStorage(EEPROM_MAGIC, 8, FZero), MkStorage(EEPROM_MAGIC, 2, FZero) }
  /\ eepromData = flash
  /\ lastOp = Op("boot", << >>)
  /\ reqCount = << >>
  /\ reqCurrent = << >>
  /\ budget = MaxCursorEvents
  /\ encIn = FZero /\ encOut = << >>
  /\ burst = << >> /\ realSince = 0

NextCursor ==
  \/ Setup(TRUE)
  \/ Restart
  \/ \E arg \in CountArgs : handleSetCells(arg)
  \/ \E f \in Frames : FrameArrive(f, TRUE)
  \/ NoRequest
  \/ LoopIrqTest(0)
  \/ LoopIrqClear
  \/ DrainDecode
  \/ DrainReturn
  \/ LoopPollSkip
  \/ LoopYield

SpecCursor == InitCursor /\ [][NextCursor]_vars

\* C13: in every reachable state every per-slave cursor is at least 0 and
\* below activeCellCount, and every index the decoder wrote in the last
\* frame is below activeCellCount.
C13_CursorBounds ==
  /\ \A s \in SlaveIdx :
       nextCellIndexPerSlave[s] >= 0 /\ nextCellIndexPerSlave[s] < activeCellCount
  /\ lastOp.op = "decode" =>
       \A k \in 1 .. Len(lastOp.arg.writes) :
         lastOp.arg.writes[k] >= 0 /\ lastOp.arg.writes[k] < activeCellCount

\* slave 1 had moved its cursor to 3 of 8 cells when the count shrank to 3;
\* then slave 255 sent two readings
C13_Witness ==
  /\ lastOp.op = "decode"
  /\ activeCellCount = 3
  /\ cells[0] = 3650
  /\ cells[2] = 65535
  /\ nextCellIndexPerSlave[255] = 2
  /\ nextCellIndexPerSlave[1] = 0

C15_ScalarFrames ==
  [][ (DrainDecode /\ Head(rxQueue).len >= 2) =>
        LET f == Head(rxQueue)
            raw == Byte(f, 2) + 256 * Byte(f, 3)
        IN  /\ (FrameType(f) = 8 /\ f.len >= 4) =>
                 /\ balanceCurrentA' = raw                \* mA
                 /\ UNCHANGED << packVoltageV, temperatureC >>
            /\ (FrameType(f) = 9 /\ f.len >= 4) =>
                 /\ packVoltageV' = 10 * raw              \* mV
                 /\ UNCHANGED << balanceCurrentA, temperatureC >>
            /\ (FrameType(f) = 10 /\ f.len >= 3) =>
                 /\ temperatureC' = 20 * Byte(f, 2)       \* 1/20 C
                 /\ UNCHANGED << balanceCurrentA, packVoltageV >>
            /\ FrameType(f) \in {8, 9, 10} =>
                 UNCHANGED << cells, nextCellIndexPerSlave, activeCellCount,
                              currentSettingA, canPresent >> ]_vars

\* slave 1 had moved its cursor with a burst, then sent the pack voltage
C15_Witness ==
  /\ lastOp.op = "decode"
  /\ FrameType(lastOp.arg.frame) = 9
  /\ SlaveOf(lastOp.arg.frame) = 1
  /\ lastOp.arg.frame.len = 4
  /\ packVoltageV = 3000
  /\ nextCellIndexPerSlave[1] = 3
  /\ cells[0] = 3700

\* ---------------- the scheduler with time running on ----------------
\* either probe result, a few frames with and without their interrupt, the
\* interrupt line firing at any point, requests, and millis() advancing by
\* less or more than the poll period on every pass, without end
MaxSchedEvents == 2

SchedFrames == { Frame(ScalarBytes(1, 10), 3) }
SchedDeltas == {0, 128, 256}
\* random() returning 0 every time
SchedRand == [cell |-> [i \in CellIdx |-> 0], temp |-> 0]

InitSched ==
  /\ PowerOn
  /\ flash = MkStorage(EEPROM_MAGIC, DEFAULT_CELLS, FZero)
  /\ eepromData = flash
  /\ lastOp = Op("boot", << >>)
  /\ reqCount = << >>
  /\ reqCurrent = << >>
  /\ budget = MaxSchedEvents
  /\ encIn = FZero /\ encOut = << >>
  /\ burst = << >> /\ realSince = 0

\* the passage of time seen by loop()
TimeAdvances == \E d \in SchedDeltas \ {0} : LoopIrqTestTimed(d)

\* the foreground: setup(), then loop() step by step
Foreground ==
  \/ \E present \in BOOLEAN : Setup(present)
  \/ NoRequest
  \/ \E d \in SchedDeltas : LoopIrqTestTimed(d)
  \/ LoopIrqClear
  \/ DrainDecode
  \/ DrainReturn
  \/ LoopPollSkip
  \/ LoopPollDrain
  \/ LoopPollTick(SchedRand)
  \/ LoopYield

NextSched ==
  \/ Foreground
  \/ handleData
  \/ canIsr
  \/ \E f \in SchedFrames, irq \in BOOLEAN : FrameArrive(f, irq)

\* the foreground always runs on, and millis() keeps growing
SpecSched ==
  /\ InitSched /\ [][NextSched]_vars
  /\ WF_vars(Foreground)
  /\ SF_vars(TimeAdvances)

\* the same on a bus where frames never stop arriving
NextFlood ==
  \/ Foreground
  \/ handleData
  \/ canIsr
  \/ \E f \in SchedFrames, irq \in BOOLEAN : FrameFlood(f, irq)

SpecFlood ==
  /\ InitSched /\ [][NextFlood]_vars
  /\ WF_vars(Foreground)
  /\ SF_vars(TimeAdvances)

\* ---------------- claims: the scheduler ----------------
\* the step calls drainCanMessages or tickSimData from the poll branch
PollingStep == pc = "pollTest" /\ (pc' = "pollDrain" \/ SimulatorStep)

\* C16: with the transceiver absent, a pass of loop() that finds the poll
\* period elapsed calls the simulator in that pass, whatever the interrupt
\* flag and the requests do: from the flag test on the period stays elapsed
\* until the poll test, and the poll test then calls tickSimData.
C16_TickOnEveryPeriod ==
  [][ ( /\ ~canPresent
        /\ pc \in {"irqClear", "irqDrain", "pollTest"}
        /\ Elapsed >= CAN_POLL_MS
        /\ pc' # pc )
      => IF pc = "pollTest" THEN SimulatorStep ELSE Elapsed' >= CAN_POLL_MS ]_vars

\* C17: a pass of loop() that found the interrupt flag set ends its drain
\* with lastPoll = now; the poll test of that pass does not poll; and a
\* polling pass runs only when at least CAN_POLL_MS have passed since
\* lastPoll.
C17_IrqDrainResetsTimer ==
  [][ /\ (pc = "irqDrain" /\ pc' # pc) =>
           /\ pc' = "pollTest"
           /\ lastPoll' = now
           /\ now' = now
      /\ (pc = "pollTest" /\ lastPoll = now /\ pc' # pc) =>
           /\ pc' = "yield"
           /\ UNCHANGED << lastPoll, telemetry, rxQueue >>
      /\ PollingStep => Elapsed >= CAN_POLL_MS ]_vars

\* the interrupt's drain has decoded a frame in a pass in which the poll
\* period had elapsed as well
C17_Witness ==
  /\ pc = "irqDrain"
  /\ canPresent
  /\ lastOp.op = "decode"
  /\ rxQueue = << >>
  /\ Elapsed >= CAN_POLL_MS

\* C18: the interrupt flag, once set, stays set until loop() clears it, which
\* it does only between its flag test and the drain that follows at once,
\* never during or after that drain; a set flag seen by the flag test leads
\* to the drain in the same pass, whatever the timer says; and every firing
\* is followed by a drain that starts after it.
C18_NoLostWakeup ==
  /\ [][ /\ (canIrqFlag /\ ~canIrqFlag') => (pc = "irqClear" /\ pc' = "irqDrain")
         /\ (pc = "irqTest" /\ canIrqFlag /\ pc' # pc) => pc' = "irqClear"
         /\ (pc = "irqClear" /\ pc' # pc) => pc' = "irqDrain" ]_vars
  /\ (canIrqFlag ~> (pc = "irqDrain" /\ ~canIrqFlag))

\* the interrupt fired again while its drain was decoding
C18_Witness ==
  /\ pc = "irqDrain"
  /\ canIrqFlag
  /\ lastOp.op = "decode"
  /\ rxQueue # << >>

\* C19: with the transceiver present, a frame pending in the transceiver is
\* eventually read and decoded, interrupt or not, as long as loop() keeps
\* running and millis() keeps growing.
C19_PendingFrameRead ==
  \A k \in 1 .. RxBuffers : (Len(rxQueue) = k) ~> (Len(rxQueue) < k)

\* a frame that came without its interrupt was decoded by the poll
C19_Witness ==
  /\ pc = "pollDrain"
  /\ ~canIrqFlag
  /\ budget = MaxSchedEvents - 1
  /\ lastOp.op = "decode"
  /\ rxQueue = << >>

\* C20: whatever the frame arrivals, every drain pass ends, so loop() reaches
\* server.handleClient() and yield() again and again.
C20_LoopCompletes ==
  /\ []<>(pc = "yield")
  /\ []<>(pc = "handleClient")

\* ---------------- the decoder line by line, among handlers and interrupts ----------------
\* the transceiver answers; cell-voltage frames are decoded one cell write at
\* a time, with the interrupt line firing and frames landing between any two
\* of them, and requests of every kind coming in
MaxStepEvents == 2

StepFrames == { Frame(BurstBytes(1), 8), Frame(BurstBytes2(255), 6) }

InitStep ==
  /\ PowerOn
  /\ flash \in { MkStorage(EEPROM_MAGIC, 8, FZero), MkStorage(EEPROM_MAGIC, 2, FZero) }
  /\ eepromData = flash
  /\ lastOp = Op("boot", << >>)
  /\ reqCount = << >>
  /\ reqCurrent = << >>
  /\ budget = MaxStepEvents
  /\ encIn = FZero /\ encOut = << >>
  /\ burst = << >> /\ realSince = 0

NextStep ==
  \/ Setup(TRUE)
  \/ handleData
  \/ \E arg \in CountArgs : handleSetCells(arg)
  \/ handleSetCurrent(<< F65 >>)
  \/ canIsr
  \/ \E f \in StepFrames, irq \in BOOLEAN : FrameArrive(f, irq)
  \/ NoRequest
  \/ \E d \in TimeDeltas : LoopIrqTest(d)
  \/ LoopIrqClear
  \/ ReadFrame
  \/ WriteCell
  \/ StoreCursor
  \/ DrainReturn
  \/ LoopPollSkip
  \/ LoopPollDrain
  \/ LoopYield

SpecStep == InitStep /\ [][NextStep]_vars

\* ---------------- claims: readers and writers ----------------
\* the step is an HTTP handler's: it uses up a request and is neither a frame
\* landing nor time passing
HandlerStep == budget' # budget /\ rxQueue' = rxQueue /\ now' = now
\* the step is the interrupt's: the foreground stands still, the flag moves
IsrStep == pc' = pc /\ canIrqFlag' # canIrqFlag

\* C21: the HTTP handlers (snapshot reader, set cell count, set current) run
\* only in server.handleClient(), where no frame decode is under way, never
\* between the cell writes of a burst or before its cursor store; the
\* interrupt writes nothing but the flag; and when a frame's decode is
\* through, cells and cursors are what one whole decode of that frame makes
\* of them.
C21_NoTornRead ==
  /\ [](pc = "handleClient" => burst = << >>)
  /\ [][ /\ HandlerStep => (pc = "handleClient" /\ burst = << >>)
         /\ IsrStep => UNCHANGED << telemetry, storage, burst, canPresent, canTx >>
         /\ (pc = "inFrame" /\ pc' # "inFrame") =>
              LET r == DecodeFrame([cells |-> burst.before.cells,
                                    cur   |-> burst.before.cur,
                                    temp  |-> temperatureC,
                                    bal   |-> balanceCurrentA,
                                    pack  |-> packVoltageV],
                                   burst.frame, activeCellCount)
              IN  /\ cells' = r.cells
                  /\ nextCellIndexPerSlave' = r.cur
                  /\ lastOp'.arg.writes = r.writes ]_vars

\* two cells of a burst are written, its cursor is not yet stored, and the
\* interrupt has fired meanwhile
C21_Witness ==
  /\ pc = "inFrame"
  /\ burst.k = 2
  /\ cells[0] = 3700
  /\ cells[1] = 4100
  /\ nextCellIndexPerSlave[1] = 0
  /\ canIrqFlag

\* ---------------- the poll test around the counter's wrap ----------------
\* loop() has just set lastPoll = now, at a counter value near 0, near the
\* wrap or in between; the next pass samples millis() any number of real
\* milliseconds later, short of one full round of the counter
ClockRefs ==
  { 0, 1, CAN_POLL_MS, Wrap - CAN_POLL_MS - 1, Wrap - CAN_POLL_MS,
    Wrap - CAN_POLL_MS + 1, Wrap - 1 }

InitClock ==
  /\ pc = "irqTest"
  /\ canPresent \in BOOLEAN
  /\ activeCellCount = DEFAULT_CELLS
  /\ cells = InitCells
  /\ temperatureC = 580
  /\ balanceCurrentA = 0
  /\ packVoltageV = 0
  /\ currentSettingA = FZero
  /\ nextCellIndexPerSlave = InitCursors
  /\ canIrqFlag = FALSE
  /\ flash = MkStorage(EEPROM_MAGIC, DEFAULT_CELLS, FZero)
  /\ eepromData = flash
  /\ lastPoll \in ClockRefs
  /\ now = lastPoll
  /\ rxQueue = << >>
  /\ canTx = << >>
  /\ lastOp = IF canPresent THEN Op("setup", flash) ELSE Op("tick", << >>)
  /\ reqCount = << >>
  /\ reqCurrent = << >>
  /\ budget = 0
  /\ encIn = FZero /\ encOut = << >>
  /\ burst = << >> /\ realSince = 0

NextClock ==
  \/ \E d \in 0 .. (Wrap - 1) : ClockPass(d)
  \/ LoopPollSkip
  \/ LoopPollDrain
  \/ LoopPollTick(SchedRand)

SpecClock == InitClock /\ [][NextClock]_vars

\* C22: with now and lastPoll taken modulo the counter's range, the poll
\* test fires if and only if at least CAN_POLL_MS real milliseconds have
\* passed since lastPoll was set, also when the counter has wrapped between
\* the two samples (the samples being less than one round of the counter
\* apart).
C22_PollAcrossWrap ==
  [][ (pc = "pollTest" /\ pc' # pc) =>
        (PollingStep <=> realSince >= CAN_POLL_MS) ]_vars

\* lastPoll was set one millisecond before the wrap and the poll fired
\* exactly CAN_POLL_MS later, at a counter value below CAN_POLL_MS
C22_Witness ==
  /\ pc = "pollDrain"
  /\ realSince = CAN_POLL_MS
  /\ now = CAN_POLL_MS - 1
  /\ lastPoll = now

====
